---- MODULE Spec2Model ----
(***************************************************************************)
(* Model of the second-stage preparation of Heat-Plume-Prediction:         *)
(*   preprocessing/prepare_2ndstage.py                                     *)
(*     prepare_dataset_for_2nd_stage  (the driver over the runs)           *)
(*     merge_inputs_for_2HPNN, __main__  (the merge of the two inputs)     *)
(* The classes the driver calls (Domain, HeatPump, Stitching) live in      *)
(* domain_classes/; they are modelled from the written specification       *)
(* (sections 3, 4 and 7).                                                  *)
(* Beside them, the data library:                                          *)
(*   data/utils.py    separate_property_unit, PhysicalVariable,            *)
(*                    PhysicalVariables                                    *)
(*   data/dataset.py  make_dataset                                         *)
(*                                                                         *)
(* Grids are one axis long (GridLen cells, windows of WindowLen cells,     *)
(* corner-anchored).  Field values are fixed-point numbers: an integer n   *)
(* denotes n / Scale, and every multiplication and division rounds to the  *)
(* nearest representable value, as the floating-point tensors do.          *)
(***************************************************************************)
EXTENDS Integers, Sequences, FiniteSets, TLC

\* ------------------------------------------------------------------ bounds
MaxRuns == 2
GridLen == 9
WindowLen == 5
Scale == 2
MaxFiles == 2
MaxLen == 5
MaxValue == 2
MaxProperties == 2
MaxFolders == 2
MaxRunNumber == 10

\* -------------------------------------------------------- program constants
\* Stitching(stitching_method, background_temperature=0)
background_temperature == 0

\* the background_value of the boxes of a Domain stitched with method "max"
background_value == 0

VARIABLES
    program,        \* which entry point runs: "prepare" or "merge"
    inputs_dir,     \* <dataset_1st_prep_path>/Inputs: run file -> persisted run
    norm_info,      \* the statistics of "Temperature [C]": <<mean, std>>
    pc,             \* the driver's position
    list_runs,      \* os.listdir(...), a sequence of run files
    run_idx,        \* position of run_file in list_runs (0: loop not entered)
    domain,         \* the local `domain` (NoDomain: unbound)
    single_hps,     \* the local `single_hps`
    hp_idx,         \* position of `hp` in the running for loop
    boxes_dir,      \* datasets_boxes_prep_path: file key -> saved input stack
    saved,          \* history: <<run_idx, box id>> of every hp.save call
    docs,           \* documents written at the end: "info", "measurements"
    error,          \* the exception that ended the driver ("none": none)
    mpc,            \* the merge program's position
    stitching_method,   \* merge_inputs_for_2HPNN's parameter
    separate_inputs,    \* path_separate_inputs/Inputs: file -> <<input[0], input[1]>>
    separate_exists,    \* os.path.exists(path_separate_inputs)
    todo,               \* files iterdir() has not yet yielded
    merged_inputs,      \* path_merged_inputs/Inputs: file -> merged input
    merged_fs,          \* directories and documents written under path_merged_inputs
    files_loaded,       \* history: files torch.load has read
    lpc,                \* the position of the data-library program
    lib_error,          \* the exception that ended it ("none": none)
    property_in,        \* the identifier handed to PhysicalVariable(...)
    physical_variable,  \* the PhysicalVariable constructed from it
    physical_variables, \* a PhysicalVariables dict: its items in key order
    dataset_dir,        \* self.dataset_path: folder -> the files in it
    data_paths,         \* make_dataset's data_paths
    runs                \* make_dataset's runs

vars == <<program, inputs_dir, norm_info, pc, list_runs, run_idx, domain, single_hps,
          hp_idx, boxes_dir, saved, docs, error, mpc, stitching_method,
          separate_inputs, separate_exists, todo, merged_inputs, merged_fs,
          files_loaded, lpc, lib_error, property_in, physical_variable,
          physical_variables, dataset_dir, data_paths, runs>>

driver_vars == <<pc, list_runs, run_idx, domain, single_hps, hp_idx, boxes_dir,
                 saved, docs, error>>

merge_vars == <<mpc, stitching_method, todo, merged_inputs, merged_fs, files_loaded>>

world_vars == <<program, inputs_dir, norm_info, separate_inputs, separate_exists>>

library_vars == <<lpc, lib_error, property_in, physical_variable, physical_variables,
                  dataset_dir, data_paths, runs>>

\* ------------------------------------------------------------- arithmetic
Abs(a) == IF a < 0 THEN -a ELSE a

Max2(a, b) == IF a >= b THEN a ELSE b

\* a / b rounded to the nearest integer (b > 0), halves rounded up
RoundDiv(a, b) == (2 * a + b) \div (2 * b)

\* ------------------------------------------------------------- the fields
Cells == 1..WindowLen

NoField == [v |-> <<>>, unit |-> "none"]

\* Normalizer.normalize: field'.values = (field.values - mean) / std
normalize(values, mean, std) ==
    [c \in DOMAIN values |-> RoundDiv((values[c] - mean) * Scale, std)]

\* Normalizer.denormalize: field'.values = field.values * std + mean
denormalize(values, mean, std) ==
    [c \in DOMAIN values |-> RoundDiv(values[c] * std, Scale) + mean]

\* Domain.norm(field, property="Temperature [C]"): physical -> standardized
Domain_norm(info, field) ==
    [v |-> normalize(field.v, info[1], info[2]),
     unit |-> IF field.unit = "phys" THEN "std" ELSE "mixed"]

\* Domain.reverse_norm(field, property="Temperature [C]"): standardized -> physical
Domain_reverse_norm(info, field) ==
    [v |-> denormalize(field.v, info[1], info[2]),
     unit |-> IF field.unit = "std" THEN "phys" ELSE "mixed"]

\* normalize fails with ZeroStdError if std == 0
ZeroStd(info) == info[2] = 0

\* ------------------------------------------------------------ the Stitcher
Methods == {"max", "mean"}

\* the (method, background_value) pairs the Stitcher accepts
SupportedStitchingConfig(method, background) ==
    method = "max" /\ background = 0

\* Stitching.__call__ for method "max", on the two values of one cell
StitchingValue(current_value, additional_value) ==
    Max2(current_value, additional_value)

\* reduce(max, values + {background_value}) over the values of one cell
RECURSIVE Reduce(_, _)
Reduce(values, acc) ==
    IF values = <<>> THEN acc
    ELSE Reduce(Tail(values), StitchingValue(acc, Head(values)))

\* the values the fields that define cell c have there, in the fields' order
ValuesAt(fields, c) ==
    LET defined == SelectSeq([i \in 1..Len(fields) |-> i],
                             LAMBDA i : c \in DOMAIN fields[i])
    IN  [k \in 1..Len(defined) |-> fields[defined[k]][c]]

\* Stitcher.merge: fields are partial (a field defines the cells of its DOMAIN)
Merge(background, fields, cells) ==
    [c \in cells |-> Reduce(ValuesAt(fields, c), background)]

\* Stitching.__call__(input[0], input[1]) on two whole fields
Stitching(background, current, additional) ==
    Merge(background, <<current, additional>>, DOMAIN current)

\* --------------------------------------------------------------- the Domain
GridCells == 0..(GridLen - 1)

\* the window of a box anchored at loc, in the Domain's frame
Window(loc) == loc..(loc + WindowLen - 1)

InBounds(loc) == Window(loc) \subseteq GridCells

\* Domain.locate_heat_pumps: one coordinate (the centroid) per contiguous
\* marked region of the identifier field, in scan order
RECURSIVE LocateFrom(_, _)
LocateFrom(marked, c) ==
    IF c >= GridLen THEN <<>>
    ELSE IF c \in marked /\ (c - 1) \notin marked
         THEN LET last == CHOOSE e \in c..(GridLen - 1) :
                              /\ \A x \in c..e : x \in marked
                              /\ (e + 1) \notin marked
              IN  <<(c + last) \div 2>> \o LocateFrom(marked, c + 1)
         ELSE LocateFrom(marked, c + 1)

locate_heat_pumps(marked) == LocateFrom(marked, 0)

NoRunFile == [stem |-> -1, ext |-> "none"]

NoDomain == [run_file |-> NoRunFile, skip_datapoint |-> FALSE, locations |-> <<>>,
             info |-> <<0, 0>>]

\* Domain(path, stitching_method="max", file_name=run_file), the run persisted
Domain(run_file, run, info) ==
    LET locations == locate_heat_pumps(run.marked)
    IN  [run_file |-> run_file,
         skip_datapoint |-> locations = <<>>,
         locations |-> locations,
         info |-> info]

\* a HeatPump box as Domain.extract_hp_boxes creates it
HeatPump(id, loc) ==
    [id |-> id, loc |-> loc, primary_temp_field |-> NoField,
     other_temp_field |-> NoField, nn_out |-> NoField, nn_calls |-> 0]

\* Domain.extract_hp_boxes: one box per location whose window lies in the grid
extract_hp_boxes(dom) ==
    LET inside == SelectSeq([i \in 1..Len(dom.locations) |-> i],
                            LAMBDA i : InBounds(dom.locations[i]))
    IN  [k \in 1..Len(inside) |-> HeatPump(inside[k], dom.locations[inside[k]])]

\* ... and a window that exceeds the grid marks the Domain skip=true
extract_marks_skip(dom) ==
    \E i \in 1..Len(dom.locations) : ~InBounds(dom.locations[i])

\* ------------------------------------------------------------- the HeatPump
\* box hp's primary field reprojected into the frame of box self: defined on
\* the cells of self's window that hp's window (its field's cells) covers
Reproject(self, hp) ==
    [c \in {c \in Cells : (self.loc + c - hp.loc) \in DOMAIN hp.primary_temp_field.v} |->
        hp.primary_temp_field.v[self.loc + c - hp.loc]]

\* the stitching without the exclusion of the box itself
get_other_temp_field_WithSelf(self, hps) ==
    [v |-> Merge(background_value,
                 [k \in 1..Len(hps) |-> Reproject(self, hps[k])],
                 Cells),
     unit |-> IF \A k \in 1..Len(hps) : hps[k].primary_temp_field.unit = "phys"
              THEN "phys" ELSE "mixed"]

\* HeatPump.get_other_temp_field(single_hps): every other box, in list order
get_other_temp_field(self, hps) ==
    LET others == SelectSeq(hps, LAMBDA hp : hp.id # self.id)
    IN  [v |-> Merge(background_value,
                     [k \in 1..Len(others) |-> Reproject(self, others[k])],
                     Cells),
         unit |-> IF \A k \in 1..Len(hps) : hps[k].primary_temp_field.unit = "phys"
                  THEN "phys" ELSE "mixed"]

\* the file key of a saved box: {run_id}{box id}, run_id = run_file.split(".")[0] + "_"
run_id(run_file) == run_file.stem

FileKey(run_file, hp) == <<run_id(run_file), hp.id>>

\* ------------------------------------------------------------ the inputs
\* run files RUN_<n>.pt of the prepared dataset
RunFiles == {[stem |-> n, ext |-> "pt"] : n \in 0..(MaxRuns - 1)}

\* identifier fields: the sets of marked heat-pump cells
Layouts == {{}, {0}, {0, 1}, {0, 2, 4}, {2, GridLen - 1}, {GridLen - 1}}

\* a persisted run: its tensors may be missing
RunData == {[present |-> FALSE, marked |-> {}]}
           \cup {[present |-> TRUE, marked |-> m] : m \in Layouts}

\* <<mean, std>> of "Temperature [C]" in the dataset's info.yaml
StatsTables == {<<0, 1>>, <<4, 3>>, <<1, 0>>}

\* the standardized outputs the 1HP model may return for a box
NNOutputs == {[c \in Cells |-> IF c = 1 THEN ab[1] ELSE ab[2]] :
                 ab \in {<<-3, 2>>, <<2, -3>>}}

\* all orders of the elements of S
Orderings(S) ==
    {q \in [1..Cardinality(S) -> S] : \A i, j \in DOMAIN q : i # j => q[i] # q[j]}

\* the place of a file name in the alphabetical order of the directory
FileRank(f) == 2 * f.stem + (IF f.ext = "pt" THEN 1 ELSE 0)

\* the orders in which os.listdir returns the run files: by ascending and by
\* descending name
ListingOrders(files) ==
    {q \in Orderings(files) :
        \/ \A i, j \in DOMAIN q : i < j => FileRank(q[i]) < FileRank(q[j])
        \/ \A i, j \in DOMAIN q : i < j => FileRank(q[i]) > FileRank(q[j])}

\* ------------------------------------------------------- data/utils.py
\* identifiers are strings over this alphabet, of at most MaxLen characters
Alphabet == {"T", "K", " ", "[", "]"}

Strings == UNION {[1..n -> Alphabet] : n \in 0..MaxLen}

\* Python's None where a string is expected
None == <<"None">>

\* str.find: the lowest 0-based index where sub occurs in s, -1 if nowhere
Find(s, sub) ==
    LET at == {i \in 0..(Len(s) - Len(sub)) : SubSeq(s, i + 1, i + Len(sub)) = sub}
    IN  IF at = {} THEN -1 ELSE CHOOSE i \in at : \A j \in at : i <= j

\* s[i:j] for 0 <= i and 0 <= j <= len(s)
Slice(s, i, j) == IF i >= j THEN <<>> ELSE SubSeq(s, i + 1, j)

\* lines 27-28
index_open(s) == Find(s, <<" ", "[">>)

index_close(s) == Find(s, <<"]">>)

\* lines 30-32: the condition of separate_property_unit's assert
separate_property_unit_assert(s) ==
    \/ index_open(s) = -1 /\ index_close(s) = -1
    \/ index_open(s) # -1 /\ index_close(s) # -1

\* the unit kept with its opening bracket
separate_property_unit_OffByOne(s) ==
    IF index_open(s) # -1 /\ index_close(s) # -1
    THEN [name |-> Slice(s, 0, index_open(s)),
          unit |-> Slice(s, index_open(s) + 1, index_close(s))]
    ELSE [name |-> s, unit |-> None]

\* lines 33-40: separate_property_unit's result <<name, unit>>
separate_property_unit(s) ==
    IF index_open(s) # -1 /\ index_close(s) # -1
    THEN [name |-> Slice(s, 0, index_open(s)),
          unit |-> Slice(s, index_open(s) + 2, index_close(s))]
    ELSE [name |-> s, unit |-> None]

\* the values of a PhysicalVariable: None, an array, or (line 103) a
\* PhysicalVariable again, told by the identifier it was constructed from
NoValue == [kind |-> "None", n |-> 0, of |-> <<>>]

Arrays == {[kind |-> "array", n |-> n, of |-> <<>>] : n \in 1..MaxValue}

VariableAsValue(name) == [kind |-> "PhysicalVariable", n |-> 0, of |-> name]

\* lines 44-50: PhysicalVariable.__init__(name, value)
PhysicalVariable(name, value) ==
    [id_name |-> name,
     name_without_unit |-> separate_property_unit(name).name,
     unit |-> separate_property_unit(name).unit,
     value |-> value,
     mean_orig |-> None,
     std_orig |-> None]

\* no PhysicalVariable bound
NoVariable ==
    [id_name |-> None, name_without_unit |-> None, unit |-> None, value |-> NoValue,
     mean_orig |-> None, std_orig |-> None]

\* any content of the Inputs directory: beside the run files of the first
\* stage, a file that shares the name of one of them up to the first "."
AnyRunFiles == RunFiles \cup {[stem |-> 0, ext |-> "bak"]}

\* ---------------------------------------------------------------- Init
InitDriver ==
    /\ pc = "start"
    /\ list_runs = <<>>
    /\ run_idx = 0
    /\ domain = NoDomain
    /\ single_hps = <<>>
    /\ hp_idx = 0
    /\ boxes_dir = <<>>
    /\ saved = {}
    /\ docs = {}
    /\ error = "none"

InitMergeIdle ==
    /\ mpc = "idle"
    /\ stitching_method = "max"
    /\ separate_inputs = <<>>
    /\ separate_exists = FALSE
    /\ todo = {}
    /\ merged_inputs = <<>>
    /\ merged_fs = {}
    /\ files_loaded = {}

\* the data library not running
InitLibraryIdle ==
    /\ lpc = "idle"
    /\ lib_error = "none"
    /\ property_in = <<>>
    /\ physical_variable = NoVariable
    /\ physical_variables = <<>>
    /\ dataset_dir = <<>>
    /\ data_paths = <<>>
    /\ runs = <<>>

InitPrepare ==
    /\ program = "prepare"
    /\ \E n \in 0..MaxRuns :
          inputs_dir \in [{f \in RunFiles : f.stem < n} -> RunData]
    /\ norm_info \in StatsTables
    /\ InitDriver
    /\ InitMergeIdle
    /\ InitLibraryIdle

\* the driver started on a directory of at most MaxRuns files of any name
InitNames ==
    /\ program = "prepare"
    /\ \E files \in SUBSET AnyRunFiles :
          /\ Cardinality(files) <= MaxRuns
          /\ inputs_dir \in [files -> {d \in RunData :
                                          ~d.present \/ d.marked \in {{0}, {0, 2, 4}}}]
    /\ norm_info \in {<<4, 3>>, <<1, 0>>}
    /\ InitDriver
    /\ InitMergeIdle
    /\ InitLibraryIdle

\* --------------------------------------- prepare_dataset_for_2nd_stage
\* line 52: list_runs = os.listdir(.../Inputs)
ListRuns ==
    /\ program = "prepare" /\ pc = "start"
    /\ list_runs' \in ListingOrders(DOMAIN inputs_dir)
    /\ pc' = "next_run"
    /\ UNCHANGED <<run_idx, domain, single_hps, hp_idx, boxes_dir, saved, docs, error>>
    /\ UNCHANGED <<world_vars, merge_vars, library_vars>>

\* line 53: the for loop over list_runs is exhausted
LoopEnd ==
    /\ pc = "next_run" /\ run_idx = Len(list_runs)
    /\ pc' = "finish"
    /\ UNCHANGED <<list_runs, run_idx, domain, single_hps, hp_idx, boxes_dir, saved,
                   docs, error>>
    /\ UNCHANGED <<world_vars, merge_vars, library_vars>>

\* line 55: Domain(...) of a run whose persisted tensors are missing raises
DomainMissing ==
    /\ pc = "next_run" /\ run_idx < Len(list_runs)
    /\ ~inputs_dir[list_runs[run_idx + 1]].present
    /\ run_idx' = run_idx + 1
    /\ error' = "MissingRunError"
    /\ pc' = "failed"
    /\ UNCHANGED <<list_runs, domain, single_hps, hp_idx, boxes_dir, saved, docs>>
    /\ UNCHANGED <<world_vars, merge_vars, library_vars>>

\* the loop without its `continue` for a skipped datapoint
DomainLoad_NoContinue ==
    /\ pc = "next_run" /\ run_idx < Len(list_runs)
    /\ LET run_file == list_runs[run_idx + 1]
       IN  /\ inputs_dir[run_file].present
           /\ domain' = Domain(run_file, inputs_dir[run_file], norm_info)
    /\ run_idx' = run_idx + 1
    /\ pc' = "extract"
    /\ UNCHANGED <<list_runs, single_hps, hp_idx, boxes_dir, saved, docs, error>>
    /\ UNCHANGED <<world_vars, merge_vars, library_vars>>

\* the Domain built with statistics fitted again for the run
DomainLoad_OwnStatistics ==
    /\ pc = "next_run" /\ run_idx < Len(list_runs)
    /\ LET run_file == list_runs[run_idx + 1]
       IN  /\ inputs_dir[run_file].present
           /\ domain' = Domain(run_file, inputs_dir[run_file],
                               <<norm_info[1] + run_idx, norm_info[2]>>)
    /\ run_idx' = run_idx + 1
    /\ pc' = IF domain'.skip_datapoint THEN "next_run" ELSE "extract"
    /\ UNCHANGED <<list_runs, single_hps, hp_idx, boxes_dir, saved, docs, error>>
    /\ UNCHANGED <<world_vars, merge_vars, library_vars>>

\* lines 54-59: the Domain is built; a skipped datapoint continues the loop
DomainLoad ==
    /\ pc = "next_run" /\ run_idx < Len(list_runs)
    /\ LET run_file == list_runs[run_idx + 1]
       IN  /\ inputs_dir[run_file].present
           /\ domain' = Domain(run_file, inputs_dir[run_file], norm_info)
    /\ run_idx' = run_idx + 1
    /\ pc' = IF domain'.skip_datapoint THEN "next_run" ELSE "extract"
    /\ UNCHANGED <<list_runs, single_hps, hp_idx, boxes_dir, saved, docs, error>>
    /\ UNCHANGED <<world_vars, merge_vars, library_vars>>

\* line 61: single_hps = domain.extract_hp_boxes()
ExtractBoxes ==
    /\ pc = "extract"
    /\ single_hps' = extract_hp_boxes(domain)
    /\ domain' = [domain EXCEPT !.skip_datapoint = extract_marks_skip(domain)]
    /\ hp_idx' = 1
    /\ pc' = "apply_nn"
    /\ UNCHANGED <<list_runs, run_idx, boxes_dir, saved, docs, error>>
    /\ UNCHANGED <<world_vars, merge_vars, library_vars>>

\* line 66: hp.primary_temp_field = hp.apply_nn(model_1HP)
ApplyNN ==
    /\ pc = "apply_nn" /\ hp_idx <= Len(single_hps)
    /\ \E out \in NNOutputs :
          single_hps' = [single_hps EXCEPT
              ![hp_idx].primary_temp_field = [v |-> out, unit |-> "std"],
              ![hp_idx].nn_out = [v |-> out, unit |-> "std"],
              ![hp_idx].nn_calls = @ + 1]
    /\ pc' = "reverse_norm"
    /\ UNCHANGED <<list_runs, run_idx, domain, hp_idx, boxes_dir, saved, docs, error>>
    /\ UNCHANGED <<world_vars, merge_vars, library_vars>>

\* the exception of apply_nn swallowed: the loop goes on with the next box
ApplyNNFails_Swallowed ==
    /\ pc = "apply_nn" /\ hp_idx <= Len(single_hps)
    /\ single_hps' = [single_hps EXCEPT ![hp_idx].nn_calls = @ + 1]
    /\ hp_idx' = hp_idx + 1
    /\ UNCHANGED <<pc, list_runs, run_idx, domain, boxes_dir, saved, docs, error>>
    /\ UNCHANGED <<world_vars, merge_vars, library_vars>>

\* line 66 raising: the exception leaves prepare_dataset_for_2nd_stage
ApplyNNFails ==
    /\ pc = "apply_nn" /\ hp_idx <= Len(single_hps)
    /\ single_hps' = [single_hps EXCEPT ![hp_idx].nn_calls = @ + 1]
    /\ error' = "InferenceError"
    /\ pc' = "failed"
    /\ UNCHANGED <<list_runs, run_idx, domain, hp_idx, boxes_dir, saved, docs>>
    /\ UNCHANGED <<world_vars, merge_vars, library_vars>>

\* line 68 left out: the primary field stays in standardized units
ReverseNorm_Omitted ==
    /\ pc = "reverse_norm"
    /\ hp_idx' = hp_idx + 1
    /\ pc' = "apply_nn"
    /\ UNCHANGED <<list_runs, run_idx, domain, single_hps, boxes_dir, saved, docs, error>>
    /\ UNCHANGED <<world_vars, merge_vars, library_vars>>

\* the two passes interleaved: the box is stitched in the inference loop
ReverseNorm_Interleaved ==
    /\ pc = "reverse_norm"
    /\ LET physical == [single_hps EXCEPT ![hp_idx].primary_temp_field =
                            Domain_reverse_norm(domain.info, @)]
       IN  single_hps' = [physical EXCEPT ![hp_idx].other_temp_field =
                              get_other_temp_field(physical[hp_idx], physical)]
    /\ hp_idx' = hp_idx + 1
    /\ pc' = "apply_nn"
    /\ UNCHANGED <<list_runs, run_idx, domain, boxes_dir, saved, docs, error>>
    /\ UNCHANGED <<world_vars, merge_vars, library_vars>>

\* line 68: hp.primary_temp_field = domain.reverse_norm(hp.primary_temp_field, ...)
ReverseNorm ==
    /\ pc = "reverse_norm"
    /\ single_hps' = [single_hps EXCEPT ![hp_idx].primary_temp_field =
                          Domain_reverse_norm(domain.info, @)]
    /\ hp_idx' = hp_idx + 1
    /\ pc' = "apply_nn"
    /\ UNCHANGED <<list_runs, run_idx, domain, boxes_dir, saved, docs, error>>
    /\ UNCHANGED <<world_vars, merge_vars, library_vars>>

\* line 69: avg_time_inference_1hp /= len(single_hps)
AverageTime ==
    /\ pc = "apply_nn" /\ hp_idx > Len(single_hps)
    /\ IF Len(single_hps) = 0
       THEN error' = "ZeroDivisionError" /\ pc' = "failed"
       ELSE error' = error /\ pc' = "stitch"
    /\ hp_idx' = 1
    /\ UNCHANGED <<list_runs, run_idx, domain, single_hps, boxes_dir, saved, docs>>
    /\ UNCHANGED <<world_vars, merge_vars, library_vars>>

\* the stitching handed only the boxes up to the current one
StitchOthers_OnlyEarlier ==
    /\ pc = "stitch"
    /\ single_hps' = [single_hps EXCEPT ![hp_idx].other_temp_field =
                          get_other_temp_field(single_hps[hp_idx],
                                               SubSeq(single_hps, 1, hp_idx))]
    /\ IF hp_idx = Len(single_hps)
       THEN hp_idx' = 1 /\ pc' = "save"
       ELSE hp_idx' = hp_idx + 1 /\ pc' = "stitch"
    /\ UNCHANGED <<list_runs, run_idx, domain, boxes_dir, saved, docs, error>>
    /\ UNCHANGED <<world_vars, merge_vars, library_vars>>

\* the stitching writing its result over the box's primary field as well
StitchOthers_InPlace ==
    /\ pc = "stitch"
    /\ LET other == get_other_temp_field(single_hps[hp_idx], single_hps)
       IN  single_hps' = [single_hps EXCEPT
               ![hp_idx].other_temp_field = other,
               ![hp_idx].primary_temp_field.v =
                   Stitching(background_value, @, other.v)]
    /\ IF hp_idx = Len(single_hps)
       THEN hp_idx' = 1 /\ pc' = "save"
       ELSE hp_idx' = hp_idx + 1 /\ pc' = "stitch"
    /\ UNCHANGED <<list_runs, run_idx, domain, boxes_dir, saved, docs, error>>
    /\ UNCHANGED <<world_vars, merge_vars, library_vars>>

\* lines 71-72: hp.get_other_temp_field(single_hps)
StitchOthers ==
    /\ pc = "stitch"
    /\ single_hps' = [single_hps EXCEPT ![hp_idx].other_temp_field =
                          get_other_temp_field(single_hps[hp_idx], single_hps)]
    /\ IF hp_idx = Len(single_hps)
       THEN hp_idx' = 1 /\ pc' = "save"
       ELSE hp_idx' = hp_idx + 1 /\ pc' = "stitch"
    /\ UNCHANGED <<list_runs, run_idx, domain, boxes_dir, saved, docs, error>>
    /\ UNCHANGED <<world_vars, merge_vars, library_vars>>

\* the save without the norm of the primary field
SaveBox_PrimaryNotNormed ==
    /\ pc = "save" /\ ~ZeroStd(domain.info)
    /\ LET hp == single_hps[hp_idx]
           primary == hp.primary_temp_field
           other == Domain_norm(domain.info, hp.other_temp_field)
       IN  /\ single_hps' = [single_hps EXCEPT
                   ![hp_idx].primary_temp_field = primary,
                   ![hp_idx].other_temp_field = other]
           /\ boxes_dir' = (FileKey(domain.run_file, hp) :> <<primary, other>>)
                              @@ boxes_dir
           /\ saved' = saved \cup {<<run_idx, hp.id>>}
    /\ IF hp_idx = Len(single_hps)
       THEN hp_idx' = 1 /\ pc' = "next_run"
       ELSE hp_idx' = hp_idx + 1 /\ pc' = "save"
    /\ UNCHANGED <<list_runs, run_idx, domain, docs, error>>
    /\ UNCHANGED <<world_vars, merge_vars, library_vars>>

\* lines 75-78: both fields are normed, stacked and saved
SaveBox ==
    /\ pc = "save" /\ ~ZeroStd(domain.info)
    /\ LET hp == single_hps[hp_idx]
           primary == Domain_norm(domain.info, hp.primary_temp_field)
           other == Domain_norm(domain.info, hp.other_temp_field)
       IN  /\ single_hps' = [single_hps EXCEPT
                   ![hp_idx].primary_temp_field = primary,
                   ![hp_idx].other_temp_field = other]
           /\ boxes_dir' = (FileKey(domain.run_file, hp) :> <<primary, other>>)
                              @@ boxes_dir
           /\ saved' = saved \cup {<<run_idx, hp.id>>}
    /\ IF hp_idx = Len(single_hps)
       THEN hp_idx' = 1 /\ pc' = "next_run"
       ELSE hp_idx' = hp_idx + 1 /\ pc' = "save"
    /\ UNCHANGED <<list_runs, run_idx, domain, docs, error>>
    /\ UNCHANGED <<world_vars, merge_vars, library_vars>>

\* line 75 raising ZeroStdError for a degenerate std
SaveBoxFails ==
    /\ pc = "save" /\ ZeroStd(domain.info)
    /\ error' = "ZeroStdError"
    /\ pc' = "failed"
    /\ UNCHANGED <<list_runs, run_idx, domain, single_hps, hp_idx, boxes_dir, saved,
                   docs>>
    /\ UNCHANGED <<world_vars, merge_vars, library_vars>>

\* lines 80-102: the averages, the info document and the measurements document
Finish ==
    /\ pc = "finish"
    /\ IF Len(list_runs) = 0
       THEN error' = "ZeroDivisionError" /\ pc' = "failed" /\ docs' = docs
       ELSE IF domain = NoDomain
       THEN error' = "UnboundLocalError" /\ pc' = "failed" /\ docs' = docs
       ELSE error' = error /\ pc' = "done" /\ docs' = {"info", "measurements"}
    /\ UNCHANGED <<list_runs, run_idx, domain, single_hps, hp_idx, boxes_dir, saved>>
    /\ UNCHANGED <<world_vars, merge_vars, library_vars>>

Prepare ==
    \/ ListRuns \/ LoopEnd \/ DomainMissing \/ DomainLoad \/ ExtractBoxes
    \/ ApplyNN \/ ApplyNNFails \/ ReverseNorm \/ AverageTime
    \/ StitchOthers \/ SaveBox \/ SaveBoxFails \/ Finish

\* ------------------------------------------- the merge program's inputs
\* the fields a saved input stack may hold (standardized units)
StackFields == {[v |-> [c \in Cells |-> IF c = 1 THEN ab[1] ELSE ab[2]], unit |-> "std"] :
                   ab \in {<<-1, 2>>, <<2, -1>>, <<-3, -3>>}}

\* the box files of path_separate_inputs/Inputs
SeparateFiles(n) == {<<0, k>> : k \in 1..n}

InitMerge ==
    /\ program = "merge"
    /\ inputs_dir = <<>>
    /\ norm_info \in {<<0, 1>>}
    /\ InitDriver
    /\ mpc \in {"main", "call"}
    /\ stitching_method \in Methods
    /\ mpc = "main" => stitching_method = "max"
    /\ separate_exists \in BOOLEAN
    /\ \E n \in 0..MaxFiles :
          /\ separate_exists \/ n = 0
          /\ separate_inputs \in [SeparateFiles(n) -> StackFields \X StackFields]
    /\ todo = {}
    /\ merged_inputs = <<>>
    /\ merged_fs = {}
    /\ files_loaded = {}
    /\ InitLibraryIdle

\* ----------------------------------------------------------- __main__
\* lines 175-179: without --merge_inputs only a message is printed
MainNoMerge ==
    /\ program = "merge" /\ mpc = "main"
    /\ mpc' = "done"
    /\ UNCHANGED <<stitching_method, todo, merged_inputs, merged_fs, files_loaded>>
    /\ UNCHANGED <<world_vars, driver_vars, library_vars>>

\* lines 164-174: the merged directory is made and Labels copied, then
\* merge_inputs_for_2HPNN(..., stitching_method="max") is called if the
\* separate inputs exist
MainMerge ==
    /\ program = "merge" /\ mpc = "main"
    /\ merged_fs' = merged_fs \cup {"dir", "Labels"}
    /\ stitching_method' = "max"
    /\ mpc' = IF separate_exists THEN "assert" ELSE "done"
    /\ UNCHANGED <<todo, merged_inputs, files_loaded>>
    /\ UNCHANGED <<world_vars, driver_vars, library_vars>>

\* -------------------------------------------- merge_inputs_for_2HPNN
\* a direct call, with any stitching_method
CallMerge ==
    /\ program = "merge" /\ mpc = "call"
    /\ separate_exists
    /\ mpc' = "assert"
    /\ UNCHANGED <<stitching_method, todo, merged_inputs, merged_fs, files_loaded>>
    /\ UNCHANGED <<world_vars, driver_vars, library_vars>>

\* line 107: assert stitching_method == "max"
MergeRejects ==
    /\ mpc = "assert"
    /\ stitching_method # "max"
    /\ mpc' = "failed"
    /\ UNCHANGED <<stitching_method, todo, merged_inputs, merged_fs, files_loaded>>
    /\ UNCHANGED <<world_vars, driver_vars, library_vars>>

\* the function without its assertion on stitching_method
MergeBegin_NoAssert ==
    /\ mpc = "assert"
    /\ merged_fs' = merged_fs \cup {"Inputs"}
    /\ todo' = DOMAIN separate_inputs
    /\ mpc' = "loop"
    /\ UNCHANGED <<stitching_method, merged_inputs, files_loaded>>
    /\ UNCHANGED <<world_vars, driver_vars, library_vars>>

\* lines 108-112: the Stitching is built, Inputs made, the iteration begins
MergeBegin ==
    /\ mpc = "assert"
    /\ stitching_method = "max"
    /\ SupportedStitchingConfig(stitching_method, background_temperature)
    /\ merged_fs' = merged_fs \cup {"Inputs"}
    /\ todo' = DOMAIN separate_inputs
    /\ mpc' = "loop"
    /\ UNCHANGED <<stitching_method, merged_inputs, files_loaded>>
    /\ UNCHANGED <<world_vars, driver_vars, library_vars>>

\* stitching(input[0], input[0]): the second input never enters
MergeFile_SameInput ==
    /\ mpc = "loop"
    /\ \E file \in todo :
          LET input == separate_inputs[file]
          IN  /\ files_loaded' = files_loaded \cup {file}
              /\ merged_inputs' =
                    (file :> <<Stitching(background_temperature, input[1].v, input[1].v)>>)
                       @@ merged_inputs
              /\ todo' = todo \ {file}
    /\ UNCHANGED <<mpc, stitching_method, merged_fs>>
    /\ UNCHANGED <<world_vars, driver_vars, library_vars>>

\* the first input saved as it is, without the stitching
MergeFile_NoStitching ==
    /\ mpc = "loop"
    /\ \E file \in todo :
          LET input == separate_inputs[file]
          IN  /\ files_loaded' = files_loaded \cup {file}
              /\ merged_inputs' = (file :> <<input[1].v>>) @@ merged_inputs
              /\ todo' = todo \ {file}
    /\ UNCHANGED <<mpc, stitching_method, merged_fs>>
    /\ UNCHANGED <<world_vars, driver_vars, library_vars>>

\* lines 114-120: one file is loaded, its two inputs stitched, the result saved
MergeFile ==
    /\ mpc = "loop"
    /\ \E file \in todo :
          LET input == separate_inputs[file]
          IN  /\ files_loaded' = files_loaded \cup {file}
              /\ merged_inputs' =
                    (file :> <<Stitching(background_temperature, input[1].v, input[2].v)>>)
                       @@ merged_inputs
              /\ todo' = todo \ {file}
    /\ UNCHANGED <<mpc, stitching_method, merged_fs>>
    /\ UNCHANGED <<world_vars, driver_vars, library_vars>>

\* lines 123-150: the config, the command line and the measurements are saved;
\* line 139 divides by the number of files
MergeFinish ==
    /\ mpc = "loop" /\ todo = {}
    /\ IF DOMAIN separate_inputs = {}
       THEN /\ merged_fs' = merged_fs \cup {"info", "command_line_args"}
            /\ mpc' = "failed"
       ELSE /\ merged_fs' = merged_fs \cup {"info", "command_line_args", "measurements"}
            /\ mpc' = "done"
    /\ UNCHANGED <<stitching_method, todo, merged_inputs, files_loaded>>
    /\ UNCHANGED <<world_vars, driver_vars, library_vars>>

MergeProgram ==
    \/ MainNoMerge \/ MainMerge \/ CallMerge
    \/ MergeRejects \/ MergeBegin \/ MergeFile \/ MergeFinish

Init == InitPrepare \/ InitMerge

Next == Prepare \/ MergeProgram

Spec == Init /\ [][Next]_vars

\* the driver alone, on a directory of files of any name
SpecNames == InitNames /\ [][Prepare]_vars

\* ------------------------------------- data/utils.py: PhysicalVariable
\* a PhysicalVariable is about to be constructed from any identifier
InitPhysicalVariable ==
    /\ program = "PhysicalVariable"
    /\ inputs_dir = <<>> /\ norm_info = <<0, 1>>
    /\ InitDriver
    /\ InitMergeIdle
    /\ lpc = "construct"
    /\ lib_error = "none"
    /\ property_in \in Strings
    /\ physical_variable = NoVariable
    /\ physical_variables = <<>>
    /\ dataset_dir = <<>>
    /\ data_paths = <<>>
    /\ runs = <<>>

\* lines 30-32: the assert of separate_property_unit fails
ConstructFails ==
    /\ program = "PhysicalVariable" /\ lpc = "construct"
    /\ ~separate_property_unit_assert(property_in)
    /\ lib_error' = "AssertionError"
    /\ lpc' = "failed"
    /\ UNCHANGED <<property_in, physical_variable, physical_variables, dataset_dir,
                   data_paths, runs>>
    /\ UNCHANGED <<world_vars, driver_vars, merge_vars>>

\* lines 44-50: PhysicalVariable(property_in)
Construct ==
    /\ program = "PhysicalVariable" /\ lpc = "construct"
    /\ separate_property_unit_assert(property_in)
    /\ physical_variable' = PhysicalVariable(property_in, NoValue)
    /\ lpc' = "constructed"
    /\ UNCHANGED <<lib_error, property_in, physical_variables, dataset_dir,
                   data_paths, runs>>
    /\ UNCHANGED <<world_vars, driver_vars, merge_vars>>

\* var.value = value, as line 109 does
AssignValue ==
    /\ program = "PhysicalVariable" /\ lpc = "constructed"
    /\ \E value \in Arrays : physical_variable' = [physical_variable EXCEPT !.value = value]
    /\ UNCHANGED <<lpc, lib_error, property_in, physical_variables, dataset_dir,
                   data_paths, runs>>
    /\ UNCHANGED <<world_vars, driver_vars, merge_vars>>

\* ------------------------------------ data/utils.py: PhysicalVariables
\* the identifiers used as keys: with a unit, without one, and one that
\* separate_property_unit rejects
Keys == {<<"T", " ", "[", "K", "]">>, <<"K", " ", "[", "]">>, <<"T">>, <<"K", "]">>}

\* the dict's items, in the dict's order, as <<key, PhysicalVariable>> records
keys(self) == [i \in 1..Len(self) |-> self[i].key]

Position(self, key) == CHOOSE i \in 1..Len(self) : self[i].key = key

Contains(self, key) == \E i \in 1..Len(self) : self[i].key = key

\* line 115: get_ids_list
get_ids_list(self) == [i \in 1..Len(self) |-> self[i].var.id_name]

\* __setitem__ taking a present key out and putting it back at the end
setitem_MoveToEnd(self, key, value) ==
    IF ~Contains(self, key)
    THEN Append(self, [key |-> key, var |-> PhysicalVariable(key, value)])
    ELSE Append(SelectSeq(self, LAMBDA item : item.key # key),
                [key |-> key, var |-> PhysicalVariable(key, value)])

\* lines 106-109: PhysicalVariables.__setitem__(key, value)
setitem(self, key, value) ==
    LET inserted == IF ~Contains(self, key)
                    THEN Append(self, [key |-> key, var |-> PhysicalVariable(key, value)])
                    ELSE self
    IN  [inserted EXCEPT ![Position(inserted, key)].var.value = value]

\* lines 102-103: for prop in properties: self[prop] = PhysicalVariable(prop)
RECURSIVE init_items(_, _)
init_items(self, properties) ==
    IF properties = <<>> THEN self
    ELSE init_items(setitem(self, Head(properties), VariableAsValue(Head(properties))),
                    Tail(properties))

PropertyLists == UNION {[1..n -> Keys] : n \in 0..MaxProperties}

\* a PhysicalVariables dict is about to be constructed
InitPhysicalVariables ==
    /\ program = "PhysicalVariables"
    /\ inputs_dir = <<>> /\ norm_info = <<0, 1>>
    /\ InitDriver
    /\ InitMergeIdle
    /\ lpc = "new"
    /\ lib_error = "none"
    /\ property_in = <<>>
    /\ physical_variable = NoVariable
    /\ physical_variables = <<>>
    /\ dataset_dir = <<>>
    /\ data_paths = <<>>
    /\ runs = <<>>

\* lines 98-104: PhysicalVariables(time, properties), a property rejected
NewVariablesFails ==
    /\ program = "PhysicalVariables" /\ lpc = "new"
    /\ \E properties \in PropertyLists :
          \E i \in DOMAIN properties : ~separate_property_unit_assert(properties[i])
    /\ lib_error' = "AssertionError"
    /\ lpc' = "failed"
    /\ UNCHANGED <<property_in, physical_variable, physical_variables, dataset_dir,
                   data_paths, runs>>
    /\ UNCHANGED <<world_vars, driver_vars, merge_vars>>

\* lines 98-104: PhysicalVariables(time, properties)
NewVariables ==
    /\ program = "PhysicalVariables" /\ lpc = "new"
    /\ \E properties \in PropertyLists :
          /\ \A i \in DOMAIN properties : separate_property_unit_assert(properties[i])
          /\ physical_variables' = init_items(<<>>, properties)
    /\ lpc' = "ready"
    /\ UNCHANGED <<lib_error, property_in, physical_variable, dataset_dir, data_paths,
                   runs>>
    /\ UNCHANGED <<world_vars, driver_vars, merge_vars>>

\* lines 106-108: self[key] = value, the new key rejected at line 108
SetItemFails ==
    /\ program = "PhysicalVariables" /\ lpc = "ready"
    /\ \E key \in Keys :
          /\ ~Contains(physical_variables, key)
          /\ ~separate_property_unit_assert(key)
    /\ lib_error' = "AssertionError"
    /\ lpc' = "failed"
    /\ UNCHANGED <<property_in, physical_variable, physical_variables, dataset_dir,
                   data_paths, runs>>
    /\ UNCHANGED <<world_vars, driver_vars, merge_vars>>

\* lines 106-109: self[key] = value
SetItem ==
    /\ program = "PhysicalVariables" /\ lpc = "ready"
    /\ \E key \in Keys, value \in Arrays :
          /\ Contains(physical_variables, key) \/ separate_property_unit_assert(key)
          /\ physical_variables' = setitem(physical_variables, key, value)
    /\ UNCHANGED <<lpc, lib_error, property_in, physical_variable, dataset_dir,
                   data_paths, runs>>
    /\ UNCHANGED <<world_vars, driver_vars, merge_vars>>

\* ------------------------------------- data/dataset.py: make_dataset
\* Strings are sequences of character codes here, compared as Python
\* compares str: code by code, a proper prefix first.
RECURSIVE StrLess(_, _)
StrLess(a, b) ==
    IF b = <<>> THEN FALSE
    ELSE IF a = <<>> THEN TRUE
    ELSE IF Head(a) # Head(b) THEN Head(a) < Head(b)
    ELSE StrLess(Tail(a), Tail(b))

\* the decimal digits of n, as character codes ("0" is 48)
RECURSIVE Decimal(_)
Decimal(n) ==
    IF n < 10 THEN <<48 + n>> ELSE Decimal(n \div 10) \o <<48 + (n % 10)>>

\* the folder of run n is named RUN_<n>; the prefix RUN_, common to all
\* folders, is left out of the compared strings
FolderName(n) == Decimal(n)

\* the files a run folder may hold: two .h5 files and another file, each
\* named by one letter
DataFiles == {[name |-> 97, h5 |-> TRUE], [name |-> 98, h5 |-> TRUE],
              [name |-> 99, h5 |-> FALSE]}

FolderContents ==
    {S \in SUBSET DataFiles :
        S = {} \/ ([name |-> 97, h5 |-> TRUE] \in S /\ Cardinality(S) <= 2)}

\* os.path.join(directory, folder, file), without the directory common to
\* all paths ("/" is 47)
PathString(folder, file) == FolderName(folder) \o <<47, file.name>>

\* tuple comparison of the (data_path, run) pairs handed to sorted()
PairLess(x, y) ==
    LET px == PathString(x.folder, x.file)
        py == PathString(y.folder, y.file)
    IN  \/ StrLess(px, py)
        \/ px = py /\ StrLess(FolderName(x.run), FolderName(y.run))

RECURSIVE InsertSorted(_, _)
InsertSorted(x, s) ==
    IF s = <<>> THEN <<x>>
    ELSE IF PairLess(x, Head(s)) THEN <<x>> \o s
    ELSE <<Head(s)>> \o InsertSorted(x, Tail(s))

\* line 95: sorted(zip(data_paths, runs))
RECURSIVE sorted(_)
sorted(s) == IF s = <<>> THEN <<>> ELSE InsertSorted(Head(s), sorted(Tail(s)))

\* lines 86-92: the (path, run) pairs of the .h5 files, in the order the
\* walk meets them when the directory lists by ascending names
RECURSIVE Walk(_)
Walk(pairs) ==
    IF pairs = {} THEN <<>>
    ELSE LET first == CHOOSE x \in pairs :
                          \A y \in pairs :
                              \/ x.folder < y.folder
                              \/ x.folder = y.folder /\ x.file.name <= y.file.name
         IN  <<first>> \o Walk(pairs \ {first})

Reverse(s) == [i \in 1..Len(s) |-> s[Len(s) + 1 - i]]

\* lines 86-92: a path is appended for every .h5 file of every folder, and
\* the folder with it
H5Pairs(dir) ==
    {x \in [folder : DOMAIN dir, file : DataFiles, run : DOMAIN dir] :
        x.file \in dir[x.folder] /\ x.file.h5 /\ x.run = x.folder}

\* make_dataset is about to be called on a dataset directory of run folders
InitMakeDataset ==
    /\ program = "make_dataset"
    /\ inputs_dir = <<>> /\ norm_info = <<0, 1>>
    /\ InitDriver
    /\ InitMergeIdle
    /\ lpc = "call"
    /\ lib_error = "none"
    /\ property_in = <<>>
    /\ physical_variable = NoVariable
    /\ physical_variables = <<>>
    /\ \E folders \in SUBSET (0..MaxRunNumber) :
          /\ Cardinality(folders) <= MaxFolders
          /\ dataset_dir \in [folders -> FolderContents]
    /\ data_paths = <<>>
    /\ runs = <<>>

\* line 95: no .h5 file was found, the unpacking of zip(*[]) fails
MakeDatasetFails ==
    /\ program = "make_dataset" /\ lpc = "call"
    /\ H5Pairs(dataset_dir) = {}
    /\ lib_error' = "ValueError"
    /\ lpc' = "failed"
    /\ UNCHANGED <<property_in, physical_variable, physical_variables, dataset_dir,
                   data_paths, runs>>
    /\ UNCHANGED <<world_vars, driver_vars, merge_vars>>

\* lines 84-97: make_dataset
MakeDataset ==
    /\ program = "make_dataset" /\ lpc = "call"
    /\ H5Pairs(dataset_dir) # {}
    /\ \E descending \in BOOLEAN :
          LET walked == IF descending THEN Reverse(Walk(H5Pairs(dataset_dir)))
                        ELSE Walk(H5Pairs(dataset_dir))
              pairs == sorted(walked)
          IN  /\ data_paths' = [i \in 1..Len(pairs) |->
                                    [folder |-> pairs[i].folder, file |-> pairs[i].file]]
              /\ runs' = [i \in 1..Len(pairs) |-> pairs[i].run]
    /\ lpc' = "returned"
    /\ UNCHANGED <<lib_error, property_in, physical_variable, physical_variables,
                   dataset_dir>>
    /\ UNCHANGED <<world_vars, driver_vars, merge_vars>>

\* ---------------------------------------- the data library as a program
InitLibrary == InitPhysicalVariable \/ InitPhysicalVariables \/ InitMakeDataset

Library ==
    \/ ConstructFails \/ Construct \/ AssignValue
    \/ NewVariablesFails \/ NewVariables \/ SetItemFails \/ SetItem
    \/ MakeDatasetFails \/ MakeDataset

SpecLibrary == InitLibrary /\ [][Library]_vars

\* ================================================================ claims
Boxes == 1..Len(single_hps)

\* C1: within one Domain, get_other_temp_field has not run for any box
\* while some box of that Domain has not completed apply_nn.
C1_StitchingBarrier ==
    \A k \in Boxes :
        single_hps[k].other_temp_field # NoField
            => \A j \in Boxes : single_hps[j].nn_out # NoField

\* a Domain of several boxes, the first stitched, the second about to be
C1_Witness ==
    /\ pc = "stitch" /\ Len(single_hps) > 2 /\ hp_idx = 2
    /\ single_hps[1].other_temp_field # NoField
    /\ single_hps[2].other_temp_field = NoField

\* every box of the Domain holds a physical primary field: the state the
\* stitching pass reads
AllPhysical ==
    \A k \in Boxes : single_hps[k].primary_temp_field.unit = "phys"

\* other primary fields a box might have had
AltFields == {[v |-> [c \in Cells |-> x], unit |-> "phys"] : x \in {-7, 9}}

\* C2: the other field of a box b, computed from the list that contains b,
\* does not depend on b's own primary field: replacing b's primary field by
\* any other field and computing again gives the other field b holds.
C2_StitchingExclusion ==
    (pc \in {"stitch", "save"} /\ AllPhysical) =>
        \A k \in Boxes :
            single_hps[k].other_temp_field # NoField =>
                \A alt \in AltFields :
                    get_other_temp_field(
                        [single_hps[k] EXCEPT !.primary_temp_field = alt],
                        [single_hps EXCEPT ![k].primary_temp_field = alt])
                    = single_hps[k].other_temp_field

\* a stitched box whose own primary field exceeds its other field at a cell
\* that another box's window covers: stitching its own field in would show
C2_Witness ==
    /\ pc \in {"stitch", "save"} /\ AllPhysical
    /\ \E k, j \in Boxes :
          /\ k # j
          /\ single_hps[k].other_temp_field # NoField
          /\ \E c \in DOMAIN Reproject(single_hps[k], single_hps[j]) :
                single_hps[k].primary_temp_field.v[c]
                    > single_hps[k].other_temp_field.v[c]

\* the persisted run the loop is at
CurrentRun == inputs_dir[list_runs[run_idx]]

NoMarkedCell(run) == run.present /\ run.marked = {}

\* C3: a run whose identifier field has no marked heat-pump cell is skipped:
\* its Domain has skip=true, the driver is never at extract_hp_boxes,
\* apply_nn, reverse_norm, get_other_temp_field or save for it, and no box
\* of it is saved nor any file of it written.
C3_SkipCorrectness ==
    /\ (run_idx >= 1 /\ NoMarkedCell(CurrentRun)) =>
          /\ domain.skip_datapoint
          /\ domain.run_file = list_runs[run_idx]
          /\ pc \in {"next_run", "finish", "done"}
    /\ \A r \in 1..run_idx :
          NoMarkedCell(inputs_dir[list_runs[r]]) =>
              /\ \A s \in saved : s[1] # r
              /\ \A key \in DOMAIN boxes_dir : key[1] # run_id(list_runs[r])

\* a skipped run after a run that wrote its boxes
C3_Witness ==
    /\ run_idx = 2 /\ NoMarkedCell(CurrentRun)
    /\ pc = "next_run"
    /\ saved # {}

\* box k of single_hps is a box of the current run and has been saved
SavedHere(k) ==
    /\ run_idx >= 1 /\ domain.run_file = list_runs[run_idx]
    /\ <<run_idx, single_hps[k].id>> \in saved

SavedStack(k) == boxes_dir[FileKey(domain.run_file, single_hps[k])]

\* the values of two fields differ by at most tol / den at every cell
Within(a, b, tol, den) ==
    /\ DOMAIN a = DOMAIN b
    /\ \A c \in DOMAIN a : Abs(a[c] - b[c]) * den <= tol

\* the physical and standardized fields the driver holds
PhysicalFields ==
    {single_hps[k].primary_temp_field.v :
        k \in {j \in Boxes : single_hps[j].primary_temp_field.unit = "phys"}}
    \cup {single_hps[k].other_temp_field.v :
        k \in {j \in Boxes : single_hps[j].other_temp_field.unit = "phys"}}

NNOutputFields ==
    {single_hps[k].nn_out.v : k \in {j \in Boxes : single_hps[j].nn_out # NoField}}

\* C4 as stated: the round trips are exact, and the saved primary field is
\* the apply_nn output
C4_ExactRoundTrip ==
    ~ZeroStd(norm_info) =>
        /\ \A x \in PhysicalFields :
              denormalize(normalize(x, norm_info[1], norm_info[2]),
                          norm_info[1], norm_info[2]) = x
        /\ \A y \in NNOutputFields :
              normalize(denormalize(y, norm_info[1], norm_info[2]),
                        norm_info[1], norm_info[2]) = y
        /\ \A k \in Boxes :
              SavedHere(k) => SavedStack(k)[1].v = single_hps[k].nn_out.v

\* C4 (amended): the round trips hold within the rounding of the two
\* operations -- half a unit for each, the first one carried through the
\* second -- and the saved primary field equals the apply_nn output within
\* that tolerance: |x' - x| <= (std/Scale + 1) / 2 units for a physical x,
\* |y' - y| <= (Scale/std + 1) / 2 units for a standardized y.
C4_RoundTripWithinTolerance ==
    ~ZeroStd(norm_info) =>
        /\ \A x \in PhysicalFields :
              Within(denormalize(normalize(x, norm_info[1], norm_info[2]),
                                 norm_info[1], norm_info[2]),
                     x, norm_info[2] + Scale, 2 * Scale)
        /\ \A y \in NNOutputFields :
              Within(normalize(denormalize(y, norm_info[1], norm_info[2]),
                               norm_info[1], norm_info[2]),
                     y, Scale + norm_info[2], 2 * norm_info[2])
        /\ \A k \in Boxes :
              SavedHere(k) =>
                  Within(SavedStack(k)[1].v, single_hps[k].nn_out.v,
                         Scale + norm_info[2], 2 * norm_info[2])

\* a saved box under statistics with a mean that the norm has to take out
C4_Witness ==
    /\ ~ZeroStd(norm_info) /\ norm_info[1] # 0
    /\ \E k \in Boxes :
          /\ SavedHere(k)
          /\ SavedStack(k)[1].unit = "std"
          /\ single_hps[k].nn_out # NoField

\* the stitching pass is under way or just over: every box still holds the
\* physical primary field the pass reads
Stitching_Pass == pc \in {"stitch", "save"} /\ AllPhysical

Stitched(k) == single_hps[k].other_temp_field # NoField

\* C5: the merge does not depend on the order of its inputs: a merged file is
\* what stitching gives for its two inputs swapped, and the other field of a
\* box is what get_other_temp_field gives for every order of the box list.
C5_StitchingDeterminism ==
    /\ \A file \in DOMAIN merged_inputs :
          merged_inputs[file][1]
              = Stitching(background_temperature,
                          separate_inputs[file][2].v, separate_inputs[file][1].v)
    /\ Stitching_Pass =>
          \A k \in Boxes :
              Stitched(k) =>
                  \A q \in Orderings(Boxes) :
                      get_other_temp_field(single_hps[k],
                                           [i \in Boxes |-> single_hps[q[i]]])
                          = single_hps[k].other_temp_field

\* a merged file neither of whose inputs lies above the other everywhere
C5_Witness ==
    \E file \in DOMAIN merged_inputs :
        LET a == separate_inputs[file][1].v
            b == separate_inputs[file][2].v
        IN  /\ \E c \in Cells : a[c] > b[c]
            /\ \E c \in Cells : b[c] > a[c]

\* C6: for method max a merged value is the maximum of the background value
\* and of the values the input fields have at the cell: it is one of them
\* and none of them exceeds it; a cell of an other field that no box's
\* window covers holds the background value.
C6_MergedIsMaximum ==
    /\ \A file \in DOMAIN merged_inputs :
          \A c \in Cells :
              LET among == {background_temperature,
                            separate_inputs[file][1].v[c],
                            separate_inputs[file][2].v[c]}
                  m == merged_inputs[file][1][c]
              IN  m \in among /\ \A x \in among : x <= m
    /\ Stitching_Pass =>
          \A k \in Boxes :
              Stitched(k) =>
                  \A c \in Cells :
                      (\A j \in Boxes \ {k} :
                           (single_hps[k].loc + c - 1) \notin Window(single_hps[j].loc))
                          => single_hps[k].other_temp_field.v[c] = background_value

\* a merged file with a cell where both inputs lie below the background and
\* a cell where an input lies above it
C6_Witness ==
    \E file \in DOMAIN merged_inputs :
        LET a == separate_inputs[file][1].v
            b == separate_inputs[file][2].v
            m == merged_inputs[file][1]
        IN  /\ \E c \in Cells : a[c] < background_temperature
                                /\ b[c] < background_temperature
                                /\ m[c] = background_temperature
            /\ \E c \in Cells : m[c] > background_temperature

\* the primary values the other boxes of the Domain have at cell c of box k
\* (translated by the offset of the windows), and the background value
Contributions(k, c) ==
    LET d == single_hps[k].loc + c - 1
    IN  {background_value}
        \cup {single_hps[j].primary_temp_field.v[d - single_hps[j].loc + 1] :
                 j \in {i \in Boxes \ {k} : d \in Window(single_hps[i].loc)}}

\* C7: at every cell of a box's window the other field is the maximum of the
\* background value and the translated primary values of the other boxes
\* that cover the cell; it is the background value where none does.
C7_OtherFieldIsMaximum ==
    Stitching_Pass =>
        \A k \in Boxes :
            Stitched(k) =>
                \A c \in Cells :
                    LET v == single_hps[k].other_temp_field.v[c]
                    IN  /\ v \in Contributions(k, c)
                        /\ \A x \in Contributions(k, c) : x <= v

\* a stitched box with a cell that two other boxes cover with different
\* values, both above the background
C7_Witness ==
    /\ Stitching_Pass
    /\ \E k \in Boxes :
          /\ Stitched(k)
          /\ \E c \in Cells : Cardinality(Contributions(k, c)) = 3

\* C8: the stitching reads physical primary fields only, no field is normed
\* before every box of the Domain is stitched, and both fields of a saved
\* stack are in standardized units.
C8_UnitsAtTheBoundaries ==
    /\ pc = "stitch" => AllPhysical
    /\ \A k \in Boxes :
          /\ Stitched(k) => single_hps[k].other_temp_field.unit \in {"phys", "std"}
          /\ (Stitched(k) /\ "std" \in {single_hps[k].primary_temp_field.unit,
                                        single_hps[k].other_temp_field.unit})
                => /\ \A j \in Boxes : Stitched(j)
                   /\ single_hps[k].primary_temp_field.unit = "std"
                   /\ single_hps[k].other_temp_field.unit = "std"
    /\ \A key \in DOMAIN boxes_dir :
          boxes_dir[key][1].unit = "std" /\ boxes_dir[key][2].unit = "std"

\* the first box of a Domain saved, in standardized units, the second one
\* still physical
C8_Witness ==
    /\ pc = "save" /\ hp_idx = 2
    /\ SavedHere(1)
    /\ SavedStack(1)[1].unit = "std" /\ SavedStack(1)[2].unit = "std"
    /\ single_hps[2].primary_temp_field.unit = "phys"
    /\ single_hps[2].other_temp_field.unit = "phys"

\* C9: apply_nn is called at most once for a box; when it has failed the
\* driver has ended and the Domain has no saved box and no file; a box of a
\* Domain is saved only when apply_nn has succeeded for every box of it.
C9_InferenceFailureIsFatal ==
    /\ \A k \in Boxes : single_hps[k].nn_calls <= 1
    /\ error = "InferenceError" =>
          /\ pc = "failed"
          /\ \A s \in saved : s[1] # run_idx
          /\ \A key \in DOMAIN boxes_dir : key[1] # run_id(domain.run_file)
    /\ (\E k \in Boxes : SavedHere(k)) =>
          \A j \in Boxes : single_hps[j].nn_out # NoField /\ single_hps[j].nn_calls = 1

\* apply_nn has failed for the second box of the second run, after the first
\* run wrote its boxes
C9_Witness ==
    /\ error = "InferenceError" /\ pc = "failed"
    /\ run_idx = 2 /\ hp_idx = 2
    /\ single_hps[1].nn_out # NoField
    /\ saved # {}

\* C10: an unsupported (method, background) pair is met only before the
\* function's first statement after the assertion or in the failed call:
\* no input file has been loaded and no file or directory written.
C10_RejectedAtConfiguration ==
    (program = "merge"
     /\ ~SupportedStitchingConfig(stitching_method, background_temperature)) =>
        /\ mpc \in {"call", "assert", "failed"}
        /\ files_loaded = {}
        /\ merged_inputs = <<>>
        /\ merged_fs = {}
        /\ todo = {}

\* a call with an unsupported method, rejected with files waiting
C10_Witness ==
    /\ program = "merge" /\ mpc = "failed"
    /\ stitching_method # "max"
    /\ DOMAIN separate_inputs # {}
    /\ files_loaded = {} /\ merged_fs = {}

\* a persisted run the driver can make boxes of: its tensors are there and a
\* heat pump of it has its window inside the grid
Processable(run) ==
    /\ run.present
    /\ \E i \in DOMAIN locate_heat_pumps(run.marked) :
          InBounds(locate_heat_pumps(run.marked)[i])

\* C11: when the persisted tensors of one run are missing, the failure is
\* surfaced and that run is abandoned, and every other run of the batch that
\* has a box to write is still processed: a box of it has been saved.
C11_OtherRunsContinue ==
    error = "MissingRunError" =>
        /\ pc = "failed"
        /\ \A s \in saved : s[1] # run_idx
        /\ \A r \in 1..Len(list_runs) :
              (r # run_idx /\ Processable(inputs_dir[list_runs[r]])) =>
                  \E s \in saved : s[1] = r

\* the Domain the loop is at has a heat pump whose window exceeds the grid
OutOfBoundsHere ==
    /\ run_idx >= 1 /\ domain.run_file = list_runs[run_idx]
    /\ extract_marks_skip(domain)

\* C12: a window that exceeds the grid during box extraction is recovered
\* locally: once extract_hp_boxes has returned the Domain is marked skip=true,
\* no box of it is saved, and the driver has not been ended by an error.
C12_OutOfBoundsRecovered ==
    OutOfBoundsHere =>
        /\ pc # "extract" => domain.skip_datapoint
        /\ \A s \in saved : s[1] # run_idx
        /\ pc # "failed"

\* the file a saved box <<run, box id>> was written to
SavedKey(s) == <<run_id(list_runs[s[1]]), s[2]>>

\* C13: every saved box has a file of its own: the files of the boxes
\* directory are those of the saved boxes, and two distinct (run file, box)
\* pairs never share a file key, so that no box file has been overwritten.
C13_NoBoxOverwritten ==
    /\ DOMAIN boxes_dir = {SavedKey(s) : s \in saved}
    /\ \A s, t \in saved : s # t => SavedKey(s) # SavedKey(t)
    /\ Cardinality(DOMAIN boxes_dir) = Cardinality(saved)

\* C14: within one preparation run the (mean, std) pair of "Temperature [C]"
\* is one and the same: every Domain holds the pair of the statistics table,
\* every field reverse_norm has returned and every stack norm has produced was
\* computed with it, and no step changes the table.
C14_OneStatisticsTable ==
    /\ [](program = "prepare" =>
            /\ domain # NoDomain => domain.info = norm_info
            /\ \A k \in Boxes :
                  /\ single_hps[k].primary_temp_field.unit = "phys" =>
                        single_hps[k].primary_temp_field =
                            Domain_reverse_norm(norm_info, single_hps[k].nn_out)
                  /\ SavedHere(k) =>
                        SavedStack(k)[1] =
                            Domain_norm(norm_info,
                                Domain_reverse_norm(norm_info, single_hps[k].nn_out)))
    /\ [][norm_info' = norm_info]_vars

\* a box of the second run is saved after the first run wrote a box: the
\* pair has served two Domains
C14_Witness ==
    /\ run_idx = 2 /\ pc = "save"
    /\ \E k \in Boxes : SavedHere(k)
    /\ \E s \in saved : s[1] = 1
    /\ norm_info # <<0, 1>>

\* C15: runs are independent: when the driver has ended, whether the boxes of
\* a run were written depends on that run's own data and on the shared
\* statistics only, whatever the other runs of the batch and their order:
\* every box of every processable run, but of a run that failed itself, is
\* saved.
C15_RunsIndependent ==
    (pc \in {"done", "failed"} /\ ~ZeroStd(norm_info)) =>
        \A r \in 1..Len(list_runs) :
            LET run == inputs_dir[list_runs[r]]
                locations == locate_heat_pumps(run.marked)
            IN  (run.present /\ (pc = "done" \/ r # run_idx)) =>
                    \A i \in DOMAIN locations :
                        InBounds(locations[i]) => <<r, i>> \in saved

\* box k as the inference loop left it: its primary field the reverse-normed
\* output of the model, its other field not yet computed
Phase1(k) ==
    [single_hps[k] EXCEPT
        !.primary_temp_field = Domain_reverse_norm(domain.info, single_hps[k].nn_out),
        !.other_temp_field = NoField]

\* C16: the stitching pass reads a snapshot of the inference pass that it
\* never changes: every primary field is still what the inference loop
\* produced, and the other field of a box is what get_other_temp_field gives
\* on the boxes as the inference loop left them, whichever boxes have been
\* stitched before it.
C16_StitchingReadsSnapshot ==
    Stitching_Pass =>
        \A k \in Boxes :
            /\ single_hps[k].primary_temp_field =
                   Domain_reverse_norm(domain.info, single_hps[k].nn_out)
            /\ Stitched(k) =>
                   single_hps[k].other_temp_field =
                       get_other_temp_field(Phase1(k), [j \in Boxes |-> Phase1(j)])

\* the last of three overlapping boxes is stitched after the two others, and
\* its other field is not the background
C16_Witness ==
    /\ pc = "save" /\ hp_idx = 1 /\ AllPhysical
    /\ Len(single_hps) = 3
    /\ \A k \in Boxes : Stitched(k)
    /\ \E c \in Cells : single_hps[3].other_temp_field.v[c] # background_value

\* s holds neither bracket
BracketFree(s) == \A i \in DOMAIN s : s[i] \notin {"[", "]"}

\* property_in is name, " [", unit, "]" with the name i characters long and
\* neither name nor unit holding a bracket
HasForm(i) ==
    /\ Len(property_in) >= i + 3
    /\ SubSeq(property_in, i + 1, i + 2) = <<" ", "[">>
    /\ property_in[Len(property_in)] = "]"
    /\ BracketFree(SubSeq(property_in, 1, i))
    /\ BracketFree(SubSeq(property_in, i + 3, Len(property_in) - 1))

\* C17: a PhysicalVariable constructed from "<name> [<unit>]" has
\* name_without_unit <name> and unit <unit>; one constructed from an
\* identifier without brackets has the whole identifier as name_without_unit
\* and unit None; id_name is the whole identifier in both cases; and the pair
\* stays what the construction parsed when the value is assigned later.
C17_ParsedAtConstruction ==
    (program = "PhysicalVariable" /\ lpc # "construct") =>
        /\ \A i \in 0..Len(property_in) :
              HasForm(i) =>
                  /\ lpc = "constructed"
                  /\ physical_variable.id_name = property_in
                  /\ physical_variable.name_without_unit = SubSeq(property_in, 1, i)
                  /\ physical_variable.unit =
                         SubSeq(property_in, i + 3, Len(property_in) - 1)
        /\ BracketFree(property_in) =>
              /\ lpc = "constructed"
              /\ physical_variable.id_name = property_in
              /\ physical_variable.name_without_unit = property_in
              /\ physical_variable.unit = None

\* "T [K]" was constructed and has been assigned a value since
C17_Witness ==
    /\ program = "PhysicalVariable" /\ lpc = "constructed"
    /\ property_in = <<"T", " ", "[", "K", "]">>
    /\ physical_variable.name_without_unit = <<"T">>
    /\ physical_variable.unit = <<"K">>
    /\ physical_variable.value \in Arrays

HasOpen(s) == \E i \in DOMAIN s : s[i] = "["

HasClose(s) == \E i \in DOMAIN s : s[i] = "]"

\* C20: separate_property_unit accepts exactly the strings that hold both
\* '[' and ']' or neither: its assertion fails exactly for the strings that
\* hold only one of the two brackets.
C20_AcceptsBothOrNeither ==
    (program = "PhysicalVariable" /\ lpc # "construct") =>
        (lpc = "failed" <=> HasOpen(property_in) # HasClose(property_in))

\* C18: in a PhysicalVariables dict every key k maps to a PhysicalVariable
\* whose id_name is k, no key is held twice, and get_ids_list() is the list
\* of the keys; an assignment leaves every item at its place, with its
\* id_name, name_without_unit and unit, changes the value of at most the item
\* of the assigned key, and puts a new key after the keys already there.
C18_KeysAndOrder ==
    /\ [](program = "PhysicalVariables" =>
            /\ \A i \in 1..Len(physical_variables) :
                  /\ physical_variables[i].var.id_name = physical_variables[i].key
                  /\ physical_variables[i].var =
                         PhysicalVariable(physical_variables[i].key,
                                          physical_variables[i].var.value)
                  /\ \A j \in 1..Len(physical_variables) :
                        physical_variables[j].key = physical_variables[i].key => j = i
            /\ get_ids_list(physical_variables) = keys(physical_variables))
    /\ [][(program = "PhysicalVariables" /\ lpc = "ready" /\ lpc' = "ready") =>
            /\ Len(physical_variables') \in
                   {Len(physical_variables), Len(physical_variables) + 1}
            /\ \A i \in 1..Len(physical_variables) :
                  /\ physical_variables'[i].key = physical_variables[i].key
                  /\ physical_variables'[i].var.id_name = physical_variables[i].var.id_name
                  /\ physical_variables'[i].var.name_without_unit =
                         physical_variables[i].var.name_without_unit
                  /\ physical_variables'[i].var.unit = physical_variables[i].var.unit
            /\ \A i, j \in 1..Len(physical_variables) :
                  (/\ physical_variables'[i] # physical_variables[i]
                   /\ physical_variables'[j] # physical_variables[j]) => i = j
            /\ Len(physical_variables') > Len(physical_variables) =>
                  \A i \in 1..Len(physical_variables) :
                      physical_variables'[i] = physical_variables[i]]_vars

\* two keys came with the construction, a third was inserted by an
\* assignment and the first was assigned again
C18_Witness ==
    /\ program = "PhysicalVariables" /\ lpc = "ready"
    /\ Len(physical_variables) = 3
    /\ physical_variables[1].var.value \in Arrays
    /\ physical_variables[2].var.value.kind = "PhysicalVariable"
    /\ physical_variables[3].var.value \in Arrays

\* C19: make_dataset returns data_paths and runs of equal length, in
\* ascending order of the run number, and runs[i] is the folder that holds
\* data_paths[i].
C19_SortedByRunNumber ==
    (program = "make_dataset" /\ lpc = "returned") =>
        /\ Len(data_paths) = Len(runs)
        /\ \A i \in DOMAIN runs : data_paths[i].folder = runs[i]
        /\ \A i, j \in DOMAIN runs : i < j => runs[i] <= runs[j]

\* C21: the driver never fails with a division by zero or an unbound
\* `domain`: whatever the Inputs directory holds, it is ended only by the
\* failure of a collaborator (a missing run, a failed inference, a zero
\* standard deviation), and otherwise reaches its end, where both documents
\* are written.
C21_NoDivisionByZero ==
    program = "prepare" =>
        /\ error \notin {"ZeroDivisionError", "UnboundLocalError"}
        /\ pc = "failed" => error \in {"MissingRunError", "InferenceError", "ZeroStdError"}
        /\ pc = "done" => docs = {"info", "measurements"}

\* C22: the value of every item of a PhysicalVariables dict is None or an
\* object assigned to its key, never a PhysicalVariable: an item that came
\* with the property list of the construction holds None until its key is
\* assigned.
C22_ValueNoneUntilAssigned ==
    program = "PhysicalVariables" =>
        \A i \in 1..Len(physical_variables) :
            /\ physical_variables[i].var.value.kind # "PhysicalVariable"
            /\ physical_variables[i].var.value \in {NoValue} \cup Arrays

====
